---- MODULE Spec2Model ----
(***************************************************************************)
(* A model of the aloha-chatbot data preparation code:                     *)
(*   core.py                  DataManager (partitions, sanity checks,      *)
(*                            candidate sampling)                          *)
(*   matrix_factorization.py  MatrixWrapper, CharCluster                   *)
(*   config.py                ClusterConfig                                *)
(*                                                                         *)
(* A dialogue table is a sequence of runs of rows: a run is n consecutive  *)
(* rows of one character in one show, so a table of several hundred rows   *)
(* stays a short sequence while row order and row counts are kept.         *)
(***************************************************************************)
EXTENDS Integers, Sequences, FiniteSets, TLC

\* ------------------------------------------------------------------------
\* Bounds of the model and constants of the program
\* ------------------------------------------------------------------------

\* longest dialogue table, in runs of rows
MaxSegs == 3

\* core.py:49  "probably not an good idea to have testing dialogs lower than 300"
MinTargetLines == 300

CharIds == {"c1", "c2", "c3"}
ShowIds == {"s1", "s2"}

\* a falsy target (core.py:121 rejects it)
EmptyId == ""

\* row counts of a run: two runs of the small one make exactly MinTargetLines
RowCounts == {MinTargetLines \div 2, MinTargetLines + 1}

\* a run of n rows of one character in one show; first is the index label of
\* its first row
Segments == [char_id : CharIds, show_id : ShowIds, n : RowCounts]

RECURSIVE SeqsUpTo(_, _)
SeqsUpTo(S, k) ==
    IF k = 0 THEN {<<>>}
    ELSE LET shorter == SeqsUpTo(S, k - 1)
         IN  shorter \cup {Append(q, e) : q \in {r \in shorter : Len(r) = k - 1}, e \in S}

RECURSIVE TableLen(_)
\* len(df): number of rows
TableLen(t) == IF t = <<>> THEN 0 ELSE Head(t).n + TableLen(Tail(t))

\* the rows labelled 0, 1, 2, ... as pandas labels a table it reads
WithIndex(t) ==
    [i \in DOMAIN t |->
        [char_id |-> t[i].char_id, show_id |-> t[i].show_id, n |-> t[i].n,
         first |-> TableLen(SubSeq(t, 1, i - 1))]]

Tables == {WithIndex(t) : t \in SeqsUpTo(Segments, MaxSegs)}

\* the head-term table, by the two columns the sanity checks read
HeadRows == [char_id : CharIds, show_id : ShowIds]
HeadTables == {{}} \cup {{r} : r \in HeadRows}

VARIABLES
    \* ---- DataManager ----
    args,            \* arguments of the pending DataManager(...) call
    constructed,     \* "no" | "ok" | the error __init__ raised
    target, test_shows, target_dialogs, test_dialogs, train_dialogs, train_chars,
    state, _pos, _neg,
    \* ---- CharCluster over a MatrixWrapper ----
    mw,              \* the character MatrixWrapper: categories, trained, model
    cc_target,       \* CharCluster.target
    config,          \* the ClusterConfig passed to retrieve
    cc_call,         \* "none" | "retrieve" | "retrieve_limits"
    limits,          \* the limits argument of a retrieve(config=..., limits=...) call
    cc_result,       \* what the call returned or raised
    \* ---- DataManager._get_candidates ----
    sent_mw,         \* the sentence MatrixWrapper passed as sent_matrix
    cand_args,       \* gt_id, sent_pool, candidate_count, selection of the call
    cand_called,     \* whether _get_candidates has been called
    cand_result,     \* what the call returned or raised
    \* ---- MatrixWrapper ----
    dataset,         \* the dataset and columns of the pending MatrixWrapper(...) call
    wrapper,         \* <<>> before construction, <<w>> the constructed MatrixWrapper
    mw_calls,        \* how many get_train calls have been made
    mw_last,         \* the last call on the wrapper: its arguments and its result
    \* ---- DataManager.write ----
    fs,              \* the file system under the output path
    wr_args,         \* random_seed, train_ratio and datasets of the pending write
    wr_runs,         \* how many write calls have been made
    wr_last          \* the last write: what it raised, what it built and wrote

dmVars == <<args, constructed, target, test_shows, target_dialogs, test_dialogs,
            train_dialogs, train_chars, state, _pos, _neg>>

ccVars == <<mw, cc_target, config, cc_call, limits, cc_result>>

candVars == <<sent_mw, cand_args, cand_called, cand_result>>

mwVars == <<dataset, wrapper, mw_calls, mw_last>>

wrVars == <<fs, wr_args, wr_runs, wr_last>>

None == "None"

\* an attribute that holds a list or None: <<>> is None, <<l>> is the list l
NoList == <<>>

\* the CharCluster variables of a run that builds no cluster
IdleCC ==
    /\ mw = None /\ cc_target = None /\ config = None
    /\ cc_call = "none" /\ limits = {} /\ cc_result = None

\* the sampling variables of a run that samples no candidates
IdleCand ==
    /\ sent_mw = None /\ cand_args = None /\ cand_called = FALSE /\ cand_result = None

\* the MatrixWrapper variables of a run that builds no wrapper of its own
IdleMW ==
    /\ dataset = None /\ wrapper = <<>> /\ mw_calls = 0 /\ mw_last = [op |-> "none"]

\* the write variables of a run that writes nothing
IdleWr ==
    /\ fs = None /\ wr_args = None /\ wr_runs = 0 /\ wr_last = [op |-> "none"]

\* ------------------------------------------------------------------------
\* core.py: DataManager.__init__ and _sanity_report
\* ------------------------------------------------------------------------

\* df.char_id.unique() as a set
CharsOf(t) == {t[i].char_id : i \in DOMAIN t}

\* core.py:123  dd.data.loc[dd.data.char_id == target]
TargetDialogs(data, tgt) == SelectSeq(data, LAMBDA r : r.char_id = tgt)

\* core.py:126  dd.data.loc[(char_id != target) & show_id.isin(test_shows)]
TestDialogs(data, tgt, shows) ==
    SelectSeq(data, LAMBDA r : r.char_id # tgt /\ r.show_id \in shows)

\* a train partition that also leaves out every character seen in a test show
TrainDialogsSkipTestChars(data, shows) ==
    LET seen == {data[i].char_id : i \in {j \in DOMAIN data : data[j].show_id \in shows}}
    IN  SelectSeq(data, LAMBDA r : r.show_id \notin shows /\ r.char_id \notin seen)

\* core.py:131  dd.data.loc[~dd.data.show_id.isin(test_shows)]
TrainDialogs(data, shows) == SelectSeq(data, LAMBDA r : r.show_id \notin shows)

\* _sanity_report with the train/test character overlap check (core.py:66) left out
SanityNoOverlapCheck(td, tsd, trd, trc, hd, tgt, shows) ==
    IF td = <<>> THEN "IndexError"
    ELSE IF ~(TableLen(td) > MinTargetLines) THEN "AssertionError"
    ELSE IF td[1].show_id \notin shows THEN "AssertionError"
    ELSE IF Cardinality(CharsOf(td)) # 1 THEN "AssertionError"
    ELSE IF (CHOOSE c \in CharsOf(td) : TRUE) # tgt THEN "AssertionError"
    ELSE IF TableLen(SelectSeq(trd, LAMBDA r : r.char_id = tgt)) # 0 THEN "AssertionError"
    ELSE IF \E sid \in shows : TableLen(SelectSeq(trd, LAMBDA r : r.show_id = sid)) # 0
         THEN "AssertionError"
    ELSE IF \E h \in hd : h.char_id = tgt THEN "AssertionError"
    ELSE IF \E h \in hd : h.show_id \in shows THEN "AssertionError"
    ELSE IF tgt \in trc THEN "AssertionError"
    ELSE IF TableLen(trd) = 0 THEN "ZeroDivisionError"
    ELSE "ok"

\* _sanity_report with >= in place of > in the size check (core.py:49)
SanityAtLeast(td, tsd, trd, trc, hd, tgt, shows) ==
    IF td = <<>> THEN "IndexError"
    ELSE IF ~(TableLen(td) >= MinTargetLines) THEN "AssertionError"
    ELSE IF td[1].show_id \notin shows THEN "AssertionError"
    ELSE IF Cardinality(CharsOf(td)) # 1 THEN "AssertionError"
    ELSE IF (CHOOSE c \in CharsOf(td) : TRUE) # tgt THEN "AssertionError"
    ELSE IF TableLen(SelectSeq(trd, LAMBDA r : r.char_id = tgt)) # 0 THEN "AssertionError"
    ELSE IF \E sid \in shows : TableLen(SelectSeq(trd, LAMBDA r : r.show_id = sid)) # 0
         THEN "AssertionError"
    ELSE IF CharsOf(trd) \cap CharsOf(tsd) # {} THEN "AssertionError"
    ELSE IF \E h \in hd : h.char_id = tgt THEN "AssertionError"
    ELSE IF \E h \in hd : h.show_id \in shows THEN "AssertionError"
    ELSE IF tgt \in trc THEN "AssertionError"
    ELSE IF TableLen(trd) = 0 THEN "ZeroDivisionError"
    ELSE "ok"

\* core.py:42-87  the first check that fails, in the order of the code, or "ok"
\*   td target_dialogs, tsd test_dialogs, trd train_dialogs, trc train_chars,
\*   hd the head-term table
_sanity_report(td, tsd, trd, trc, hd, tgt, shows) ==
    \* :48  target_dialogs.iloc[0] of an empty frame
    IF td = <<>> THEN "IndexError"
    \* :49
    ELSE IF ~(TableLen(td) > MinTargetLines) THEN "AssertionError"
    \* :51  only the first row's show is looked at
    ELSE IF td[1].show_id \notin shows THEN "AssertionError"
    \* :53, :54
    ELSE IF Cardinality(CharsOf(td)) # 1 THEN "AssertionError"
    ELSE IF (CHOOSE c \in CharsOf(td) : TRUE) # tgt THEN "AssertionError"
    \* :60
    ELSE IF TableLen(SelectSeq(trd, LAMBDA r : r.char_id = tgt)) # 0 THEN "AssertionError"
    \* :63-65
    ELSE IF \E sid \in shows : TableLen(SelectSeq(trd, LAMBDA r : r.show_id = sid)) # 0
         THEN "AssertionError"
    \* :66-68
    ELSE IF CharsOf(trd) \cap CharsOf(tsd) # {} THEN "AssertionError"
    \* :71-75
    ELSE IF \E h \in hd : h.char_id = tgt THEN "AssertionError"
    ELSE IF \E h \in hd : h.show_id \in shows THEN "AssertionError"
    \* :78
    ELSE IF tgt \in trc THEN "AssertionError"
    \* :86-87  len(hd.data) / len(train_dialogs) in the closing report
    ELSE IF TableLen(trd) = 0 THEN "ZeroDivisionError"
    ELSE "ok"

\* core.py:89-137  what DataManager(target, test_shows, dialog_data, head_data) raises,
\* or "ok"; the datasets are passed in (the defaults load them from files)
InitOutcome(a, hd) ==
    IF a.target = EmptyId THEN "AssertionError"     \* :121
    ELSE _sanity_report(TargetDialogs(a.dd, a.target),
                        TestDialogs(a.dd, a.target, a.test_shows),
                        TrainDialogs(a.dd, a.test_shows),
                        CharsOf(TrainDialogs(a.dd, a.test_shows)),
                        hd, a.target, a.test_shows)

\* target, test_shows and dialog_data of a DataManager(...) call; head_data is drawn
\* when the call is made
ArgSets == [target : CharIds \cup {EmptyId}, test_shows : SUBSET ShowIds, dd : Tables]

\* the DataManager fields before __init__ has run
NoFields ==
    /\ target = None /\ test_shows = {}
    /\ target_dialogs = <<>> /\ test_dialogs = <<>> /\ train_dialogs = <<>>
    /\ train_chars = {}
    /\ state = None /\ _pos = NoList /\ _neg = NoList

\* the DataManager variables of a run that builds no manager
IdleDM == args = None /\ constructed = "no" /\ NoFields

InitDM ==
    /\ args \in ArgSets
    /\ constructed = "no"
    /\ NoFields
    /\ IdleCC /\ IdleCand /\ IdleMW /\ IdleWr

\* DataManager.__init__ runs to its end: the object exists with its fields set
ConstructOK ==
    /\ constructed = "no"
    /\ \E hd \in HeadTables : InitOutcome(args, hd) = "ok"
    /\ constructed' = "ok"
    /\ target' = args.target
    /\ test_shows' = args.test_shows
    /\ target_dialogs' = TargetDialogs(args.dd, args.target)
    /\ test_dialogs' = TestDialogs(args.dd, args.target, args.test_shows)
    /\ train_dialogs' = TrainDialogs(args.dd, args.test_shows)
    /\ train_chars' = CharsOf(TrainDialogs(args.dd, args.test_shows))
    /\ _pos' = NoList /\ _neg' = NoList
    /\ state' = "train"
    /\ UNCHANGED <<args, ccVars, candVars, mwVars, wrVars>>

\* DataManager.__init__ raises: no object is bound
ConstructFail ==
    /\ constructed = "no"
    /\ \E hd \in HeadTables :
          /\ InitOutcome(args, hd) # "ok"
          /\ constructed' = InitOutcome(args, hd)
    /\ UNCHANGED <<args, target, test_shows, target_dialogs, test_dialogs,
                   train_dialogs, train_chars, state, _pos, _neg, ccVars, candVars, mwVars, wrVars>>

NextDM == ConstructOK \/ ConstructFail

vars == <<dmVars, ccVars, candVars, mwVars, wrVars>>

SpecDM == InitDM /\ [][NextDM]_vars

\* ------------------------------------------------------------------------
\* matrix_factorization.py: MatrixWrapper lookups and neighbour queries
\* ------------------------------------------------------------------------

\* number of characters of the feature table
NumObjects == 9

\* ids in the order pandas sorts them into categories
AllIds == <<"c1", "c2", "c3", "c4", "c5", "c6", "c7", "c8", "c9", "d1", "d2", "d3">>

\* an id no table holds
UnknownId == "zz"

Min(a, b) == IF a < b THEN a ELSE b

Range(q) == {q[i] : i \in DOMAIN q}

\* results of calls that can raise
Ok(v) == [ok |-> TRUE, val |-> v]
Err(e) == [ok |-> FALSE, err |-> e]

\* an optional int: <<>> is None
NoInt == <<>>
Some(n) == <<n>>

\* an object map numbered from 1
m1FromOne(m) == [code \in 1 .. Len(m.cat1) |-> m.cat1[code]]

\* matrix_factorization.py:62  m1 = dict(enumerate(cat1.cat.categories))
m1(m) == [code \in 0 .. Len(m.cat1) - 1 |-> m.cat1[code + 1]]
\* matrix_factorization.py:64
m2(m) == [code \in 0 .. Len(m.cat2) - 1 |-> m.cat2[code + 1]]
\* matrix_factorization.py:66
m1_count(m) == Cardinality(DOMAIN m1(m))

\* a dict lookup _map[value] where _map is the inverse {r: i for i, r in fwd.items()}
InvLookup(fwd, value) ==
    IF \E i \in DOMAIN fwd : fwd[i] = value
    THEN Ok(CHOOSE i \in DOMAIN fwd : fwd[i] = value /\ \A j \in DOMAIN fwd : fwd[j] = value => j <= i)
    ELSE Err("KeyError")

\* a dict lookup _map[value] in a forward map
FwdLookup(fwd, value) ==
    IF value \in DOMAIN fwd THEN Ok(fwd[value]) ELSE Err("KeyError")

\* matrix_factorization.py:107-125  convert(value, to_category, feature)
convert(m, value, to_category, feature) ==
    IF to_category
    THEN InvLookup(IF feature THEN m2(m) ELSE m1(m), value)
    ELSE FwdLookup(IF feature THEN m2(m) ELSE m1(m), value)

\* matrix_factorization.py:150  model.similar_users(cat, N=top_n): the N codes ranked
\* most similar to cat by the fitted model, best first, all of them when there are
\* fewer than N (the scores are not modelled: no caller reads them)
similar_users(m, cat, N) == SubSeq(m.sim[cat], 1, Min(N, Len(m.sim[cat])))

\* matrix_factorization.py:127-153  get_similar(id_, top_n, feature=False, convert_back)
get_similar(m, id_, top_n, convert_back) ==
    IF ~m.trained THEN Err("Exception")
    ELSE LET cat == convert(m, id_, TRUE, FALSE)
         IN  IF ~cat.ok THEN cat
             ELSE LET res == similar_users(m, cat.val, top_n)
                  IN  IF convert_back
                      THEN Ok([i \in DOMAIN res |-> convert(m, res[i], FALSE, FALSE).val])
                      ELSE Ok(res)

\* ------------------------------------------------------------------------
\* config.py: ClusterConfig;  matrix_factorization.py: CharCluster
\* ------------------------------------------------------------------------

\* config.py:69, :73  the assertions of ClusterConfig.__init__
ClusterConfigInit(c) ==
    /\ 3 < c.perc_cutoff /\ c.perc_cutoff < 50
    /\ c.aco > 3

RECURSIVE Flatten(_)
\* the entries of a sequence of sequences, in order
Flatten(ss) == IF ss = <<>> THEN <<>> ELSE Head(ss) \o Flatten(Tail(ss))

RECURSIVE CounterOf(_, _)
\* collections.Counter fed one element at a time: <<element, count>> entries in
\* the order the elements were first seen
CounterOf(hits, acc) ==
    IF hits = <<>> THEN acc
    ELSE LET x == Head(hits)
             at == {i \in DOMAIN acc : acc[i][1] = x}
         IN  CounterOf(Tail(hits),
                 IF at = {} THEN Append(acc, <<x, 1>>)
                 ELSE [i \in DOMAIN acc |-> IF i \in at THEN <<x, acc[i][2] + 1>> ELSE acc[i]])

RECURSIVE most_common(_)
\* Counter.most_common(): by count, largest first; equal counts keep their order
most_common(entries) ==
    IF entries = <<>> THEN <<>>
    ELSE LET top == CHOOSE i \in DOMAIN entries :
                        /\ \A j \in DOMAIN entries : entries[j][2] <= entries[i][2]
                        /\ \A j \in 1 .. i - 1 : entries[j][2] < entries[i][2]
         IN  <<entries[top]>>
             \o most_common(SubSeq(entries, 1, top - 1) \o SubSeq(entries, top + 1, Len(entries)))

\* matrix_factorization.py:210-215  the score of a counted character
Score(freq, weighted, log_scale) ==
    IF weighted
    THEN IF log_scale THEN [kind |-> "log", of |-> freq] ELSE [kind |-> "freq", of |-> freq]
    ELSE [kind |-> "one", of |-> 1]

\* _expand with > in place of >= in the split (matrix_factorization.py:216)
ExpandStrictSplit(m, tgt, l1, l2, aco, weighted, log_scale) ==
    LET level1 == get_similar(m, tgt, l1, TRUE)
    IN  IF ~level1.ok THEN level1
        ELSE LET lists == [i \in DOMAIN level1.val |-> get_similar(m, level1.val[i], l2, TRUE).val]
                 counted == most_common(CounterOf(Flatten(lists), <<>>))
                 scored == [i \in DOMAIN counted |->
                              <<counted[i][1], counted[i][2], Score(counted[i][2], weighted, log_scale)>>]
             IN  Ok([positives |-> SelectSeq(scored, LAMBDA e : e[2] > aco),
                     negatives |-> SelectSeq(scored, LAMBDA e : ~(e[2] > aco))])

\* matrix_factorization.py:188-220  _expand(l1, l2, aco, weighted, log_scale)
_expand(m, tgt, l1, l2, aco, weighted, log_scale) ==
    \* :196
    LET level1 == get_similar(m, tgt, l1, TRUE)
    IN  IF ~level1.ok THEN level1
        ELSE \* :199-203
             LET lists == [i \in DOMAIN level1.val |-> get_similar(m, level1.val[i], l2, TRUE).val]
                 counted == most_common(CounterOf(Flatten(lists), <<>>))
                 \* :209-219
                 scored == [i \in DOMAIN counted |->
                              <<counted[i][1], counted[i][2], Score(counted[i][2], weighted, log_scale)>>]
             IN  Ok([positives |-> SelectSeq(scored, LAMBDA e : e[2] >= aco),
                     negatives |-> SelectSeq(scored, LAMBDA e : ~(e[2] >= aco))])

\* a level-1 size that takes a limit of 0 for no limit
Level1SizeOr(m, cfg) ==
    Min((m1_count(m) * cfg.perc_cutoff) \div 100,
        IF cfg.l1 # NoInt /\ cfg.l1[1] # 0 THEN cfg.l1[1] ELSE m1_count(m))

\* matrix_factorization.py:223-224  the level-1 size
Level1Size(m, cfg) ==
    Min((m1_count(m) * cfg.perc_cutoff) \div 100,
        IF cfg.l1 # NoInt THEN cfg.l1[1] ELSE m1_count(m))

\* matrix_factorization.py:225
Level2Size(m, cfg) == IF cfg.l2 # NoInt THEN cfg.l2[1] ELSE m1_count(m)

\* matrix_factorization.py:222-229  retrieve(config)
retrieve(m, tgt, cfg) ==
    _expand(m, tgt, Level1Size(m, cfg), Level2Size(m, cfg), cfg.aco, cfg.weighted, cfg.log_scale)

\* core.py:229 calls retrieve(config=..., limits=...); matrix_factorization.py:222
\* declares retrieve(self, config): the call raises before the body runs
retrieve_limits(m, tgt, cfg, lim) == Err("TypeError")

\* ---- the neighbour rankings the fitted model may hold ----

\* the n codes from code c + s on, upwards (d = 1) or downwards (d = n - 1)
Rotation(c, s, d, n) == [k \in 1 .. n |-> (c + s + d * (k - 1)) % n]

\* rankings: even codes share one shift and direction, odd codes another; shift 0
\* ranks a character first among its own neighbours
Rankings(n) ==
    {[c \in 0 .. n - 1 |-> IF c % 2 = 0 THEN Rotation(c, se, de, n) ELSE Rotation(c, so, do, n)] :
        se \in 0 .. 2, de \in {1, n - 1}, so \in 0 .. 2, do \in {1, n - 1}}

FeatureIds == <<"f1", "f2">>

Wrappers ==
    [cat1 : {SubSeq(AllIds, 1, NumObjects)}, cat2 : {FeatureIds},
     trained : BOOLEAN, sim : Rankings(NumObjects)]

Configs ==
    {c \in [perc_cutoff : {10, 49, 50}, l1 : {NoInt, Some(0), Some(2)},
            l2 : {NoInt, Some(3), Some(5)}, aco : {3, 4, 5},
            weighted : BOOLEAN, log_scale : BOOLEAN] : ClusterConfigInit(c)}

Targets == {AllIds[1], AllIds[2], AllIds[3], UnknownId}

InitCC ==
    /\ mw \in Wrappers
    /\ cc_target \in Targets
    /\ config \in Configs
    /\ cc_call = "none" /\ limits = {} /\ cc_result = None
    /\ IdleDM /\ IdleCand /\ IdleMW /\ IdleWr

\* cc.retrieve(config)
Retrieve ==
    /\ cc_call = "none"
    /\ cc_call' = "retrieve"
    /\ cc_result' = retrieve(mw, cc_target, config)
    /\ UNCHANGED <<mw, cc_target, config, limits, dmVars, candVars, mwVars, wrVars>>

\* cc.retrieve(config=config, limits=train_chars), the call of DataManager.write
RetrieveWithLimits ==
    /\ cc_call = "none"
    /\ \E lim \in {{}, {AllIds[2]}, {AllIds[i] : i \in 1 .. NumObjects} \ {cc_target}} :
          /\ limits' = lim
          /\ cc_result' = retrieve_limits(mw, cc_target, config, lim)
    /\ cc_call' = "retrieve_limits"
    /\ UNCHANGED <<mw, cc_target, config, dmVars, candVars, mwVars, wrVars>>

NextCC == Retrieve \/ RetrieveWithLimits

SpecCC == InitCC /\ [][NextCC]_vars

\* ------------------------------------------------------------------------
\* core.py: DataManager._get_candidates
\* ------------------------------------------------------------------------

\* core.py:170  "we ask sentences 200 times more than we need"
OverFetch == 200

\* core.py:273, :290  candidate_count=20
CandidateCount == 20

\* dataset.py:220  the columns of the dialogue table
Columns == <<"show_id", "char_name", "char_id", "dia1", "dia2">>

\* frame.loc[label]: the row with that index label; the utterance dia2 of a row is
\* named by the row's label (no two rows share a text)
Loc(frame, label) ==
    IF \E i \in DOMAIN frame : frame[i].first <= label /\ label < frame[i].first + frame[i].n
    THEN LET r == frame[CHOOSE i \in DOMAIN frame :
                          frame[i].first <= label /\ label < frame[i].first + frame[i].n]
         IN  Ok([char_id |-> r.char_id, show_id |-> r.show_id, dia2 |-> label])
    ELSE Err("KeyError")

\* core.py:172 calls convert(sent_cat, to_category=False, raising=False);
\* matrix_factorization.py:107 declares convert(self, value, to_category, feature):
\* the keyword is unknown and the call raises before the body runs
convert_raising(m, value, to_category, feature, raising) == Err("TypeError")

\* core.py:176  the test  _sent.char_id in self._neg : _neg is None until write sets
\* it, and then a list of (char_id, freq, score) tuples, none of which equals an id
NegContains(neg, char_id) ==
    IF neg = NoList THEN Err("TypeError") ELSE Ok(FALSE)

RECURSIVE TrainLoop(_, _, _, _, _, _, _)
\* core.py:170-179  the loop over the ranked sentence categories
TrainLoop(ranked, sm, pool, count, _dias, neg, res) ==
    IF ranked = <<>> THEN Ok(res)
    ELSE LET sent_cat == Head(ranked)
         IN  IF sent_cat \notin pool
             THEN TrainLoop(Tail(ranked), sm, pool, count, _dias, neg, res)
             ELSE LET sent_id == convert_raising(sm, sent_cat, FALSE, FALSE, FALSE)
                  IN  IF ~sent_id.ok THEN sent_id
                      ELSE IF sent_id.val = NoInt
                      THEN TrainLoop(Tail(ranked), sm, pool, count, _dias, neg, res)
                      ELSE LET _sent == Loc(_dias, sent_id.val[1])
                               isneg == NegContains(neg, _sent.val.char_id)
                           IN  IF ~_sent.ok THEN _sent
                               ELSE IF ~isneg.ok THEN isneg
                               ELSE IF ~isneg.val THEN Err("AssertionError")
                               ELSE IF Len(res) + 1 >= count
                               THEN Ok(Append(res, _sent.val.dia2))
                               ELSE TrainLoop(Tail(ranked), sm, pool, count, _dias, neg,
                                              Append(res, _sent.val.dia2))

\* core.py:181  test_dialogs.sample(n=candidate_count-1): n rows without replacement
sample(frame, n) ==
    IF n < 0 \/ n > TableLen(frame) THEN Err("ValueError") ELSE Ok([rows |-> n])

\* core.py:181-182  for dia in <DataFrame>: a frame iterates over its column
\* labels, which are strings, and dia.dia2 of a string raises
TestLoop(sampled, res) ==
    IF Columns # <<>> THEN Err("AttributeError") ELSE Ok(res)

\* the orders np.random.shuffle (core.py:185) can leave a list in
Shuffles(res) ==
    {[i \in DOMAIN res |-> res[f[i]]] :
        f \in {g \in [DOMAIN res -> DOMAIN res] : \A i, j \in DOMAIN res : g[i] = g[j] => i = j}}

\* core.py:158-184  the list before the shuffle, or the error raised
Candidates(dm, gt_id, sm, pool, count) ==
    IF dm.state \notin {"train", "test"} THEN Err("Exception")
    ELSE LET _dias == IF dm.state = "train" THEN dm.train_dialogs ELSE dm.test_dialogs
             gt == Loc(_dias, gt_id)
         IN  IF ~gt.ok THEN gt
             ELSE IF dm.state = "train"
             THEN LET ranked == get_similar(sm, gt_id, count * OverFetch, FALSE)
                  IN  IF ~ranked.ok THEN ranked
                      ELSE TrainLoop(ranked.val, sm, pool, count, _dias, dm._neg, <<gt.val.dia2>>)
             ELSE LET sampled == sample(dm.test_dialogs, count - 1)
                  IN  IF ~sampled.ok THEN sampled
                      ELSE TestLoop(sampled.val, <<gt.val.dia2>>)

\* _get_candidates that fills a short list up to candidate_count by drawing from it
\* with replacement
GetCandidatesPadded(dm, gt_id, sm, pool, count, selection) ==
    IF selection # "close" THEN {Err("NotImplementedError")}
    ELSE LET res == Candidates(dm, gt_id, sm, pool, count)
         IN  IF ~res.ok THEN {res}
             ELSE {Ok(p) : p \in [1 .. count -> Range(res.val)]}

\* core.py:139-186  _get_candidates(gt_id, sent_matrix, sent_pool, candidate_count,
\* selection): the results the call can have
_get_candidates(dm, gt_id, sm, pool, count, selection) ==
    IF selection # "close" THEN {Err("NotImplementedError")}
    ELSE LET res == Candidates(dm, gt_id, sm, pool, count)
         IN  IF ~res.ok THEN {res}
             ELSE {Ok(p) : p \in Shuffles(res.val)}

\* ---- the managers, sentence indexes and calls of the sampling runs ----

\* dialogue tables in which the rows of a character in a show are one run, and
\* that DataManager("c1", {"s1"}, ...) accepts
CandTables ==
    {t \in Tables :
        /\ \A i, j \in DOMAIN t :
              (t[i].char_id = t[j].char_id /\ t[i].show_id = t[j].show_id) => i = j
        /\ InitOutcome([target |-> "c1", test_shows |-> {"s1"}, dd |-> t], {}) = "ok"}

RECURSIVE SortedSeq(_)
\* the distinct values of a column in category order
SortedSeq(S) ==
    IF S = {} THEN <<>>
    ELSE LET lo == CHOOSE x \in S : \A y \in S : x <= y
         IN  <<lo>> \o SortedSeq(S \ {lo})

\* the first label of every run
FirstLabels(t) == {t[i].first : i \in DOMAIN t}

\* sentence indexes over the training rows: the sentence ids are the first two
\* labels of every training run, or those but the smallest
SentWrappers(trd) ==
    LET ids == FirstLabels(trd) \cup {l + 1 : l \in FirstLabels(trd)}
        some == ids \ {CHOOSE x \in ids : \A y \in ids : x <= y}
    IN  UNION {[cat1 : {SortedSeq(k)}, cat2 : {FeatureIds}, trained : BOOLEAN,
                sim : {[c \in 0 .. Cardinality(k) - 1 |-> Rotation(c, sh, 1, Cardinality(k))] :
                          sh \in 0 .. 1}] : k \in {ids, some}}

InitCand ==
    /\ \E t \in CandTables :
          /\ args = [target |-> "c1", test_shows |-> {"s1"}, dd |-> t]
          /\ target_dialogs = TargetDialogs(t, "c1")
          /\ test_dialogs = TestDialogs(t, "c1", {"s1"})
          /\ train_dialogs = TrainDialogs(t, {"s1"})
          /\ train_chars = CharsOf(TrainDialogs(t, {"s1"}))
          /\ sent_mw \in SentWrappers(TrainDialogs(t, {"s1"}))
          /\ \E gt \in FirstLabels(t) \cup {TableLen(t)} :
                cand_args \in [gt_id : {gt},
                               sent_pool : {{}, {0}, {1, 2}, 0 .. Len(sent_mw.cat1) - 1},
                               candidate_count : {0, 1, 2, CandidateCount},
                               selection : {"close"}]
    /\ constructed = "ok"
    /\ target = "c1" /\ test_shows = {"s1"}
    /\ _pos = NoList /\ _neg = NoList
    /\ state = "train"
    /\ cand_called = FALSE /\ cand_result = None
    /\ IdleCC /\ IdleMW /\ IdleWr

\* self.state = 'train' or self.state = 'test': the mode is set before a phase
\* (core.py:261, :284)
SetState ==
    /\ ~cand_called
    /\ \E mode \in {"train", "test"} : mode # state /\ state' = mode
    /\ UNCHANGED <<args, constructed, target, test_shows, target_dialogs, test_dialogs,
                   train_dialogs, train_chars, _pos, _neg, ccVars, candVars, mwVars, wrVars>>

\* self._get_candidates(gt_id, sent_matrix, sent_pool, candidate_count)
GetCandidates ==
    /\ ~cand_called
    /\ cand_called' = TRUE
    /\ cand_result' \in _get_candidates(
           [state |-> state, train_dialogs |-> train_dialogs,
            test_dialogs |-> test_dialogs, _neg |-> _neg],
           cand_args.gt_id, sent_mw, cand_args.sent_pool, cand_args.candidate_count,
           cand_args.selection)
    /\ UNCHANGED <<sent_mw, cand_args, dmVars, ccVars, mwVars, wrVars>>

NextCand == SetState \/ GetCandidates

SpecCand == InitCand /\ [][NextCand]_vars

\* ------------------------------------------------------------------------
\* Claims about DataManager construction (SpecDM)
\* ------------------------------------------------------------------------

\* C1: after a successful construction train_dialogs holds no row of the target,
\* no row of a test show, and shares no character id with test_dialogs.
C1_TrainIsolated ==
    constructed = "ok" =>
        /\ \A i \in DOMAIN train_dialogs : train_dialogs[i].char_id # target
        /\ \A i \in DOMAIN train_dialogs : train_dialogs[i].show_id \notin test_shows
        /\ CharsOf(train_dialogs) \cap CharsOf(test_dialogs) = {}

\* a constructed manager with training rows and with other-character test rows
C1_Witness ==
    constructed = "ok" /\ train_dialogs # <<>> /\ test_dialogs # <<>>

\* C2: after a successful construction every row of target_dialogs, not only the
\* first, is a row of a test show.
C2_TargetRowsInTestShows ==
    constructed = "ok" =>
        \A i \in DOMAIN target_dialogs : target_dialogs[i].show_id \in test_shows

\* a constructed manager whose target rows come in more than one run
C2_Witness ==
    constructed = "ok" /\ Len(target_dialogs) >= 2

\* rows of the target character in the test shows
TargetTestRows(a) ==
    TableLen(SelectSeq(a.dd, LAMBDA r : r.char_id = a.target /\ r.show_id \in a.test_shows))

\* C3: construction for a target with 300 or fewer rows in the test shows (zero
\* included) fails, whatever else the table holds.
C3_SmallTargetFails ==
    (constructed # "no" /\ TargetTestRows(args) <= MinTargetLines) => constructed # "ok"

\* a failed construction for a target that has more than 300 rows in all, of which
\* 300 or fewer (but some) are in the test shows
C3_Witness ==
    /\ constructed \notin {"no", "ok"}
    /\ TargetTestRows(args) <= MinTargetLines
    /\ TargetTestRows(args) > 0
    /\ TableLen(TargetDialogs(args.dd, args.target)) > MinTargetLines

\* a failed construction for a target with no row at all
C3_WitnessZero ==
    /\ constructed = "IndexError"
    /\ TargetTestRows(args) = 0

\* ------------------------------------------------------------------------
\* Claims about CharCluster.retrieve (SpecCC)
\* ------------------------------------------------------------------------

\* the character ids of a list of (char_id, freq, score) entries
IdsOf(entries) == {entries[i][1] : i \in DOMAIN entries}

\* the level-1 characters of the pending retrieve, in rank order
Level1Chars == get_similar(mw, cc_target, Level1Size(mw, config), TRUE).val

\* the level-2 neighbours of a level-1 character
Level2Of(char1) == Range(get_similar(mw, char1, Level2Size(mw, config), TRUE).val)

\* in how many level-1 characters' level-2 lists a character appears
FreqOf(c) == Cardinality({i \in DOMAIN Level1Chars : c \in Level2Of(Level1Chars[i])})

RetrieveReturned == cc_call = "retrieve" /\ cc_result.ok

\* C4: retrieve returns positives of frequency >= t and negatives of frequency < t,
\* the two lists share no character id, and together they hold exactly the
\* characters of the level-2 neighbour lists of the level-1 characters.
C4_SplitByThreshold ==
    RetrieveReturned =>
        LET pos == cc_result.val.positives
            neg == cc_result.val.negatives
        IN  /\ \A i \in DOMAIN pos : pos[i][2] >= config.aco /\ pos[i][2] = FreqOf(pos[i][1])
            /\ \A i \in DOMAIN neg : neg[i][2] < config.aco /\ neg[i][2] = FreqOf(neg[i][1])
            /\ IdsOf(pos) \cap IdsOf(neg) = {}
            /\ IdsOf(pos) \cup IdsOf(neg) =
                   UNION {Level2Of(Level1Chars[i]) : i \in DOMAIN Level1Chars}

\* a retrieve that returned some positives and some negatives, one of them counted
\* exactly t times
C4_Witness ==
    /\ RetrieveReturned
    /\ cc_result.val.positives # <<>>
    /\ cc_result.val.negatives # <<>>
    /\ \E i \in DOMAIN cc_result.val.positives : cc_result.val.positives[i][2] = config.aco

\* C5: the target never appears among the positives or the negatives retrieve
\* returns, whatever the neighbour relation.
C5_TargetExcluded ==
    RetrieveReturned =>
        cc_target \notin IdsOf(cc_result.val.positives) \cup IdsOf(cc_result.val.negatives)

\* C6: a retrieve called with eligible ids succeeds and returns only eligible ids.
C6_EligibleOnly ==
    cc_call = "retrieve_limits" =>
        /\ cc_result.ok
        /\ IdsOf(cc_result.val.positives) \cup IdsOf(cc_result.val.negatives) \subseteq limits

\* ------------------------------------------------------------------------
\* Claims about _get_candidates (SpecCand)
\* ------------------------------------------------------------------------

\* how often x occurs in a list
Occurrences(q, x) == Cardinality({i \in DOMAIN q : q[i] = x})

TrainCall == cand_called /\ state = "train"

\* the call has a ground truth that is a training row the trained sentence index
\* knows
ValidTrainCall ==
    /\ TrainCall
    /\ cand_args.candidate_count >= 1
    /\ Loc(train_dialogs, cand_args.gt_id).ok
    /\ get_similar(sent_mw, cand_args.gt_id, cand_args.candidate_count * OverFetch, FALSE).ok

\* the ranked neighbours of the ground truth that lie in the pool
PoolHits ==
    Range(get_similar(sent_mw, cand_args.gt_id,
                      cand_args.candidate_count * OverFetch, FALSE).val)
        \cap cand_args.sent_pool

C8_ShortList ==
    (ValidTrainCall /\ Cardinality(PoolHits) < cand_args.candidate_count - 1) =>
        /\ cand_result.ok
        /\ Len(cand_result.val) = Cardinality(PoolHits) + 1
        /\ Occurrences(cand_result.val, cand_args.gt_id) = 1
        /\ \A c \in PoolHits : Occurrences(cand_result.val, m1(sent_mw)[c]) = 1

\* the character ids of the negatives write stored, none before it has
NegIds == IF _neg = NoList THEN {} ELSE IdsOf(_neg[1])

C10_TestModeFull ==
    (/\ cand_called /\ state = "test"
     /\ cand_args.candidate_count >= 1
     /\ Loc(target_dialogs, cand_args.gt_id).ok
     /\ TableLen(test_dialogs) >= cand_args.candidate_count - 1) =>
        /\ cand_result.ok
        /\ Len(cand_result.val) = cand_args.candidate_count
        /\ Occurrences(cand_result.val, cand_args.gt_id) = 1
        /\ \A i \in DOMAIN cand_result.val :
              /\ Occurrences(cand_result.val, cand_result.val[i]) = 1
              /\ cand_result.val[i] # cand_args.gt_id
                    => Loc(test_dialogs, cand_result.val[i]).ok

\* ------------------------------------------------------------------------
\* matrix_factorization.py: MatrixWrapper construction, convert and get_train

MaxRows == 3
MaxTrainCalls == 2

\* the ids and features of the small datasets a wrapper is built from here
MWObjects == {"c1", "c2", "c3"}
MWFeatures == {"f1", "f2"}

\* dataset.py:248  HLAData.COLs
HLACols == {"feature", "char_id", "work", "char_name"}

\* the order pandas sorts the values of a column in
ValueOrder == AllIds \o FeatureIds

\* data[col].astype('category').cat.categories: the distinct values, sorted
categories(data, col) ==
    SelectSeq(ValueOrder, LAMBDA v : \E i \in DOMAIN data : data[i][col] = v)

\* data[col].astype('category').cat.codes: for each row the position of its value
\* among the categories, from 0
codes(data, col) ==
    LET cats == categories(data, col)
    IN  [i \in DOMAIN data |-> (CHOOSE k \in DOMAIN cats : cats[k] = data[i][col]) - 1]

\* np.ones(data.shape[0])
ones(n) == [i \in 1 .. n |-> 1]

\* a matrix indexed by (object code, feature code)
ToCooTransposed(data, col1, col2) ==
    LET row == codes(data, col1)
        col == codes(data, col2)
        val == ones(Len(data))
    IN  [coo  |-> [i \in DOMAIN data |-> [row |-> row[i], col |-> col[i], data |-> val[i]]],
         cat1 |-> categories(data, col1),
         cat2 |-> categories(data, col2)]

\* matrix_factorization.py:33-37  coo_matrix((data, (row, col))) keeps one stored
\* entry per record; the row index is the feature code, the column the object code
_to_coo(data, col1, col2) ==
    LET row == codes(data, col2)
        col == codes(data, col1)
        val == ones(Len(data))
    IN  [coo  |-> [i \in DOMAIN data |-> [row |-> row[i], col |-> col[i], data |-> val[i]]],
         cat1 |-> categories(data, col1),
         cat2 |-> categories(data, col2)]

\* the value of the matrix at (row, col): stored entries of one cell add up
RECURSIVE Entry(_, _, _)
Entry(coo, r, c) ==
    IF coo = <<>> THEN 0
    ELSE (IF Head(coo).row = r /\ Head(coo).col = c THEN Head(coo).data ELSE 0)
         + Entry(Tail(coo), r, c)

\* the sum of all values of the matrix
RECURSIVE Total(_)
Total(coo) == IF coo = <<>> THEN 0 ELSE Head(coo).data + Total(Tail(coo))

\* coo * conf_scale
Scale(coo, k) == [i \in DOMAIN coo |-> [coo[i] EXCEPT !.data = @ * k]]

\* matrix_factorization.py:63  m1_inv = {r: i for i, r in m1.items()}: a later
\* code of the same id would overwrite an earlier one
m1_inv(m) ==
    [r \in Range(m1(m)) |->
        CHOOSE i \in DOMAIN m1(m) : m1(m)[i] = r /\ \A j \in DOMAIN m1(m) : m1(m)[j] = r => j <= i]
\* matrix_factorization.py:65
m2_inv(m) ==
    [r \in Range(m2(m)) |->
        CHOOSE i \in DOMAIN m2(m) : m2(m)[i] = r /\ \A j \in DOMAIN m2(m) : m2(m)[j] = r => j <= i]
\* matrix_factorization.py:67
m2_count(m) == Cardinality(DOMAIN m2(m))

\* matrix_factorization.py:39-70  MatrixWrapper(dataset, col1, col2)
MatrixWrapperInit(ds, col1, col2) ==
    IF ~(Len(ds.data) > 0) THEN Err("AssertionError")
    ELSE IF col1 \notin ds.COLs THEN Err("AssertionError")
    ELSE IF col2 \notin ds.COLs THEN Err("AssertionError")
    ELSE LET t == _to_coo(ds.data, col1, col2)
             m == [col1 |-> col1, col2 |-> col2, coo |-> t.coo,
                   cat1 |-> t.cat1, cat2 |-> t.cat2, model |-> <<>>]
         IN  IF m1_count(m) # Cardinality(DOMAIN m1_inv(m)) THEN Err("AssertionError")
             ELSE IF m2_count(m) # Cardinality(DOMAIN m2_inv(m)) THEN Err("AssertionError")
             ELSE Ok(m)

\* config.py:19-41  MatrixTrainingConfig(...): precisions and thresholds are whole
\* percents here, None is <<>>
MatrixTrainingConfigInit(c) ==
    /\ 0 < c.train_percentage /\ c.train_percentage < 100
    /\ c.safe_pass # NoInt => (0 < c.safe_pass[1] /\ c.safe_pass[1] < 100)

TrainConfigs ==
    {c \in [top_n : {100}, conf_scale : {1, 20}, random_state : {NoInt},
            safe_pass : {NoInt, Some(0), Some(20)}, train_percentage : {70}] :
        MatrixTrainingConfigInit(c)}

\* the precisions a validation can report, in percent: below, at and above the
\* threshold TrainConfigs sets
Precisions == {10, 20, 30}

\* implicit's train_test_split(coo, train_percentage): every stored entry goes to
\* the train part or to the test part at random
Splits(coo) ==
    {[train |-> SelectSeq([i \in DOMAIN coo |-> [e |-> coo[i], i |-> i]],
                          LAMBDA x : x.i \in I),
      test  |-> SelectSeq([i \in DOMAIN coo |-> [e |-> coo[i], i |-> i]],
                          LAMBDA x : x.i \notin I)] : I \in SUBSET DOMAIN coo}

\* AlternatingLeastSquares(...).fit(matrix): a new model object, known by the
\* matrix it was fit on, the fit that made it and the call that made it
fit(matrix, pass, serial) == [fit_on |-> matrix, pass |-> pass, serial |-> serial]

\* the get_train guard that never refuses
GetTrainGuardOff(model, overwrite) == FALSE

\* matrix_factorization.py:75  if self.model and not overwrite
GetTrainRefuses(model, overwrite) == model # <<>> /\ ~overwrite

\* the validation that passes a precision at the threshold
ValidationFailsBelow(cfg, prec) == cfg.safe_pass # NoInt /\ ~(prec >= cfg.safe_pass[1])

\* matrix_factorization.py:96-97  if train_config.safe_pass: assert prec > safe_pass
ValidationFails(cfg, prec) == cfg.safe_pass # NoInt /\ ~(prec > cfg.safe_pass[1])

\* a get_train that keeps the model of the validation fit
StoredIsValidation(m, cfg, validated, serial) ==
    IF validated = <<>> THEN fit(Scale(m.coo, cfg.conf_scale), "complete", serial)
    ELSE validated[1]

\* matrix_factorization.py:99-105  the model get_train stores
StoredModel(m, cfg, validated, serial) ==
    fit(Scale(m.coo, cfg.conf_scale), "complete", serial)

\* matrix_factorization.py:72-105  get_train(train_config, report_test, test_df,
\* overwrite): split and prec are what the random split and the precision
\* measurement of this call give; the result is the wrapper after the call and what
\* the call raised
get_train(m, cfg, report_test, test_df, overwrite, split, prec, serial) ==
    IF GetTrainRefuses(m.model, overwrite) THEN [m |-> m, res |-> Err("Exception")]
    ELSE IF report_test /\ test_df # <<>> /\ ~(Len(test_df[1]) > 0)
         THEN [m |-> m, res |-> Err("AssertionError")]
    \* test_csr = self._to_coo(test_df) is a tuple: test_csr.T has no attribute T
    ELSE IF report_test /\ test_df # <<>> THEN [m |-> m, res |-> Err("AttributeError")]
    ELSE IF report_test /\ ValidationFails(cfg, prec)
         THEN [m |-> m, res |-> Err("AssertionError")]
    ELSE LET train_csr == [i \in DOMAIN split.train |-> split.train[i].e]
             validated == IF report_test
                          THEN <<fit(Scale(train_csr, cfg.conf_scale), "validation", serial)>>
                          ELSE <<>>
         IN  [m |-> [m EXCEPT !.model = <<StoredModel(m, cfg, validated, serial)>>],
              res |-> Ok(None)]

\* ---- construction and convert ----

Datasets ==
    [data : SeqsUpTo([char_id : MWObjects, feature : MWFeatures], MaxRows), COLs : {HLACols}]

ColumnPairs == {<<"char_id", "feature">>, <<"feature", "char_id">>, <<"sent_id", "head_text">>}

InitMW ==
    /\ dataset \in [ds : Datasets, cols : ColumnPairs]
    /\ wrapper = <<>> /\ mw_calls = 0 /\ mw_last = [op |-> "none"]
    /\ IdleDM /\ IdleCC /\ IdleCand /\ IdleWr

\* MatrixWrapper(dataset, col1, col2)
Construct ==
    /\ wrapper = <<>> /\ mw_last.op = "none"
    /\ LET r == MatrixWrapperInit(dataset.ds, dataset.cols[1], dataset.cols[2])
       IN  /\ wrapper' = IF r.ok THEN <<r.val>> ELSE <<>>
           /\ mw_last' = [op |-> "init", ok |-> r.ok]
    /\ UNCHANGED <<dataset, mw_calls, dmVars, ccVars, candVars, wrVars>>

\* the values a caller converts: ids when to_category, codes otherwise
ConvertValues(to_category) ==
    IF to_category THEN MWObjects \cup MWFeatures \cup {UnknownId} ELSE 0 .. MaxRows

\* wrapper.convert(value, to_category, feature) and, as core.py:172 and :253 call
\* it, wrapper.convert(value, ..., raising=False)
Convert ==
    /\ wrapper # <<>>
    /\ \E to_category \in BOOLEAN, feature \in BOOLEAN, raising \in {"omitted", "False"} :
         \E value \in ConvertValues(to_category) :
            mw_last' = [op |-> "convert", value |-> value, to_category |-> to_category,
                        feature |-> feature, raising |-> raising,
                        result |-> IF raising = "omitted"
                                   THEN convert(wrapper[1], value, to_category, feature)
                                   ELSE convert_raising(wrapper[1], value, to_category,
                                                        feature, FALSE)]
    /\ UNCHANGED <<dataset, wrapper, mw_calls, dmVars, ccVars, candVars, wrVars>>

NextMW == Construct \/ Convert

SpecMW == InitMW /\ [][NextMW]_vars

\* ---- get_train ----

TrainDatasets ==
    {d \in [data : SeqsUpTo([char_id : {"c1", "c2"}, feature : MWFeatures], 2),
            COLs : {HLACols}] : Len(d.data) > 0}

\* the frames a caller passes as test_df: none, an empty one, one of one record
TestFrames == {<<>>, << <<>> >>, << <<[char_id |-> "c1", feature |-> "f1"]>> >>}

InitTrain ==
    /\ dataset \in [ds : TrainDatasets, cols : {<<"char_id", "feature">>}]
    /\ wrapper = <<MatrixWrapperInit(dataset.ds, dataset.cols[1], dataset.cols[2]).val>>
    /\ mw_calls = 0 /\ mw_last = [op |-> "init", ok |-> TRUE]
    /\ IdleDM /\ IdleCC /\ IdleCand /\ IdleWr

\* wrapper.get_train(train_config, report_test, test_df, overwrite)
GetTrain ==
    /\ wrapper # <<>> /\ mw_calls < MaxTrainCalls
    /\ \E cfg \in TrainConfigs, report_test \in BOOLEAN, test_df \in TestFrames,
          overwrite \in BOOLEAN, split \in Splits(wrapper[1].coo), prec \in Precisions :
         LET r == get_train(wrapper[1], cfg, report_test, test_df, overwrite, split, prec,
                            mw_calls + 1)
         IN  /\ wrapper' = <<r.m>>
             /\ mw_last' = [op |-> "get_train", train_config |-> cfg,
                            report_test |-> report_test, test_df |-> test_df,
                            overwrite |-> overwrite, prec |-> prec,
                            before |-> wrapper[1].model, ok |-> r.res.ok,
                            err |-> IF r.res.ok THEN None ELSE r.res.err]
    /\ mw_calls' = mw_calls + 1
    /\ UNCHANGED <<dataset, dmVars, ccVars, candVars, wrVars>>

NextTrain == GetTrain

SpecTrain == InitTrain /\ [][NextTrain]_vars

\* ------------------------------------------------------------------------
\* core.py: DataManager.write

MaxWriteRuns == 2

\* core.py:38-40
TRAIN_F == "train.txt"
TEST_F == "test.txt"
VALID_F == "valid.txt"

OutputFiles == {TRAIN_F, VALID_F, TEST_F}

\* config.py:107-111 (thresholds in whole percents)
HLA_TRAIN_CONFIG ==
    [top_n |-> 100, conf_scale |-> 20, random_state |-> Some(649128),
     safe_pass |-> Some(20), train_percentage |-> 70]

\* config.py:113-115
HLA_CLUSTER_CONFIG ==
    [perc_cutoff |-> 10, l1 |-> NoInt, l2 |-> Some(30), aco |-> 10,
     weighted |-> FALSE, log_scale |-> FALSE]

\* core.py:13 imports SENT_NEIGHBOUR_CONFIG from config, which does not define it:
\* taken to be a MatrixTrainingConfig without a threshold
SENT_NEIGHBOUR_CONFIG ==
    [top_n |-> 100, conf_scale |-> 20, random_state |-> NoInt,
     safe_pass |-> NoInt, train_percentage |-> 70]

\* a file system under the output path: whether the parent folder and the folder
\* exist, and for each output file <<>> when it is absent, <<lines>> when it exists
exists(fsys, f) == fsys.files[f] # <<>>

\* an open that creates nothing
OpenCreatesNothing(fsys, f) == fsys

\* codecs.open(f, 'a+'): creates the file when it is absent, keeps what it holds
open(fsys, f) ==
    IF exists(fsys, f) THEN fsys ELSE [fsys EXCEPT !.files[f] = << <<>> >>]

\* ptr.write(line) on a file opened for appending
append(fsys, f, line) == [fsys EXCEPT !.files[f] = <<Append(@[1], line)>>]

\* an existence test that looks at train.txt only
ExistsTrainOnly(fsys) == exists(fsys, TRAIN_F)

\* core.py:221  the negation of the asserted condition
AnyOutputExists(fsys) ==
    ~(~exists(fsys, TRAIN_F) /\ ~exists(fsys, TEST_F) /\ ~exists(fsys, VALID_F))

\* core.py:208-222  the checks of write before it builds anything: the file system
\* they leave and what they raise (None: nothing)
Precheck(a, fsys) ==
    \* :209  BasicConfig has no Output_Path
    IF a.path = <<>> THEN [fs |-> fsys, err |-> "AttributeError"]
    \* :210-212  os.mkdir needs the parent folder
    ELSE IF ~fsys.dir /\ ~fsys.parent THEN [fs |-> fsys, err |-> "FileNotFoundError"]
    ELSE LET made == [fsys EXCEPT !.dir = TRUE]
         IN  \* :213-214
             IF a.random_seed # NoInt /\ a.random_seed[1] # 0
             THEN [fs |-> made, err |-> "NotImplementedError"]
             \* :215
             ELSE IF ~(0 < a.train_ratio /\ a.train_ratio < 100)
             THEN [fs |-> made, err |-> "AssertionError"]
             \* :221-222
             ELSE IF AnyOutputExists(made) THEN [fs |-> made, err |-> "AssertionError"]
             ELSE [fs |-> made, err |-> None]

\* core.py:225-229  the character index and the cluster of the target: the lists
\* retrieve returns, or what raised
BuildClusters(dm, a) ==
    LET char_mw == MatrixWrapperInit(a.hla, "char_id", "feature")
    IN  IF ~char_mw.ok THEN char_mw
        ELSE LET trained == get_train(char_mw.val, HLA_TRAIN_CONFIG, FALSE, <<>>, FALSE,
                                      [train |-> <<>>, test |-> <<>>], 0, 1)
             IN  IF ~trained.res.ok THEN trained.res
                 ELSE retrieve_limits(trained.m, dm.target, HLA_CLUSTER_CONFIG, dm.train_chars)

\* the index labels of the rows of a frame that satisfy a test on the row's run
LabelsWhere(frame, Test(_)) ==
    UNION {frame[i].first .. frame[i].first + frame[i].n - 1 :
              i \in {j \in DOMAIN frame : Test(frame[j])}}

RECURSIVE PoolLoop(_, _, _)
\* core.py:252-255  for sid in _sent_ids: convert, add when truthy (None and a
\* code of 0 are not)
PoolLoop(sids, sm, sent_pool) ==
    IF sids = <<>> THEN Ok(sent_pool)
    ELSE LET _cat == convert_raising(sm, Head(sids), TRUE, FALSE, FALSE)
         IN  IF ~_cat.ok THEN _cat
             ELSE PoolLoop(Tail(sids), sm,
                           IF _cat.val # NoInt /\ _cat.val[1] # 0
                           THEN sent_pool \cup {_cat.val[1]} ELSE sent_pool)

\* core.py:249-256  the sentence pool over a trained sentence index: the pool, or
\* what raised
BuildPool(dd, neg, sm) ==
    LET isin == NegContains(neg, "")
    IN  IF ~isin.ok THEN isin
        ELSE LET _sent_ids == SortedSeq(LabelsWhere(dd, LAMBDA r : NegContains(neg, r.char_id).val))
                 sent_pool == PoolLoop(_sent_ids, sm, {})
             IN  IF ~sent_pool.ok THEN sent_pool
                 ELSE IF sent_pool.val = {} THEN Err("AssertionError")
                 ELSE sent_pool

\* core.py:244-245  the sentence index: MatrixWrapper(self.hd, 'sent_id',
\* 'head_text') (matrix_factorization.py:39-70, sentence ids are row labels) and
\* its first get_train, without validation; a.ranking is the neighbour ranking the
\* fit gives
BuildSentenceIndex(a) ==
    IF ~(Len(a.hd.data) > 0) THEN Err("AssertionError")
    ELSE IF "sent_id" \notin a.hd.COLs \/ "head_text" \notin a.hd.COLs THEN Err("AssertionError")
    ELSE Ok([cat1 |-> SortedSeq({a.hd.data[i].sent_id : i \in DOMAIN a.hd.data}),
             cat2 |-> categories(a.hd.data, "head_text"),
             trained |-> TRUE, sim |-> a.ranking])

\* core.py:271, :288  self.hla.get_hlas(cid, amount=8, draw='random'): HLAData
\* (dataset.py:247-293) and CSVData define no get_hlas
get_hlas(cid, amount, draw) == Err("AttributeError")

\* core.py:188-203  _format_fb_line(hlas, d1, d2, sentences): the example of a
\* ground-truth row, known by the row's label
_format_fb_line(hlas, gt, sentences) == [gt |-> gt, hlas |-> hlas, sentences |-> sentences]

\* core.py:271-275, :288-291  the body of the loops over the ground-truth rows up
\* to the formatted line: the examples it can build, or what raised
ExamplesOf(dm, cid, gt, sm, sent_pool) ==
    LET _hlas == get_hlas(cid, 8, "random")
    IN  IF ~_hlas.ok THEN {_hlas}
        ELSE {IF _cands.ok THEN Ok(_format_fb_line(_hlas.val, gt, _cands.val)) ELSE _cands :
                 _cands \in _get_candidates(dm, gt, sm, sent_pool, CandidateCount, "close")}

\* the (character, row label) pairs a phase goes through, in order: for each
\* character of the list its rows in the frame
GroundTruths(chars, frame) ==
    Flatten([c \in DOMAIN chars |->
        Flatten([i \in DOMAIN frame |->
            IF frame[i].char_id = chars[c]
            THEN [k \in 1 .. frame[i].n |-> [cid |-> chars[c], gt |-> frame[i].first + k - 1]]
            ELSE <<>>])])

RECURSIVE WriteLoop(_, _, _, _, _, _)
\* core.py:266-279, :287-292  the loop over the ground-truth rows: each row's line
\* goes to one of the files given (np.random.rand() < train_ratio picks between
\* two); the file systems the loop can leave, each with what raised
WriteLoop(gts, targets, dm, sm, sent_pool, fsys) ==
    IF gts = <<>> THEN {[fs |-> fsys, err |-> None]}
    ELSE UNION {IF ~e.ok THEN {[fs |-> fsys, err |-> e.err]}
                ELSE UNION {WriteLoop(Tail(gts), targets, dm, sm, sent_pool,
                                      append(fsys, f, e.val)) : f \in targets} :
                   e \in ExamplesOf(dm, Head(gts).cid, Head(gts).gt, sm, sent_pool)}

\* a training phase that leaves the mode as it finds it
TrainingKeepsMode(dm, pos, sm, sent_pool, fsys) ==
    {[fs |-> o.fs, err |-> o.err, state |-> dm.state] :
        o \in WriteLoop(GroundTruths([i \in DOMAIN pos |-> pos[i][1]], dm.train_dialogs),
                        {TRAIN_F, VALID_F}, dm, sm, sent_pool,
                        open(open(fsys, TRAIN_F), VALID_F))}

\* core.py:259-281  the training phase: self.state = 'train' (:261), train.txt and
\* valid.txt are opened (:263-264), then the rows of the positives are gone through
\* by a manager in that mode; what the phase leaves
TrainingPhase(dm, pos, sm, sent_pool, fsys) ==
    {[fs |-> o.fs, err |-> o.err, state |-> "train"] :
        o \in WriteLoop(GroundTruths([i \in DOMAIN pos |-> pos[i][1]], dm.train_dialogs),
                        {TRAIN_F, VALID_F}, [dm EXCEPT !.state = "train"], sm, sent_pool,
                        open(open(fsys, TRAIN_F), VALID_F))}

\* core.py:283-293  the testing phase: self.state = 'test' (:284), test.txt is
\* opened (:285), then the rows of self.test_dialogs whose character is the target
\* are gone through by a manager in that mode; what the phase leaves
TestingPhase(dm, sm, sent_pool, fsys) ==
    {[fs |-> o.fs, err |-> o.err, state |-> "test"] :
        o \in WriteLoop(GroundTruths(<<dm.target>>, dm.test_dialogs),
                        {TEST_F}, [dm EXCEPT !.state = "test"], sm, sent_pool,
                        open(fsys, TEST_F))}

\* what a write leaves: the file system, the manager's mode and lists, the stage it
\* stopped at and what it raised there (None: it returned)
Left(fsys, dm, at, err) ==
    [fs |-> fsys, state |-> dm.state, _pos |-> dm._pos, _neg |-> dm._neg,
     at |-> at, err |-> err]

\* core.py:205-293  write(path, random_seed, train_ratio): everything a call can
\* leave
write(dm, a, fsys) ==
    LET pre == Precheck(a, fsys)
    IN  IF pre.err # None THEN {Left(pre.fs, dm, "precheck", pre.err)}
        ELSE
        LET lists == BuildClusters(dm, a)
        IN  IF ~lists.ok THEN {Left(pre.fs, dm, "clusters", lists.err)}
            ELSE
            LET dm1 == [dm EXCEPT !._pos = <<lists.val.positives>>,
                                  !._neg = <<lists.val.negatives>>]
                sm == BuildSentenceIndex(a)
            IN  IF ~sm.ok THEN {Left(pre.fs, dm1, "sentences", sm.err)}
                ELSE
                LET sent_pool == BuildPool(dm.dd, dm1._neg, sm.val)
                IN  IF ~sent_pool.ok THEN {Left(pre.fs, dm1, "pool", sent_pool.err)}
                    ELSE UNION {
                        IF tr.err # None
                        THEN {Left(tr.fs, [dm1 EXCEPT !.state = tr.state], "training", tr.err)}
                        ELSE {Left(te.fs, [dm1 EXCEPT !.state = te.state], "testing", te.err) :
                                 te \in TestingPhase([dm1 EXCEPT !.state = tr.state], sm.val,
                                                     sent_pool.val, tr.fs)} :
                        tr \in TrainingPhase(dm1, dm1._pos[1], sm.val, sent_pool.val, pre.fs)}

\* ---- write runs ----

FileSystems ==
    {f \in [parent : BOOLEAN, dir : BOOLEAN,
            files : [OutputFiles -> {<<>>, << <<"old">> >>}]] :
        /\ f.dir => f.parent
        /\ ~f.dir => \A n \in OutputFiles : f.files[n] = <<>>}

\* the feature and sentence datasets of the manager: empty or not
HLADatasets ==
    {d \in [data : SeqsUpTo([char_id : {"c1"}, feature : {"f1"}], 1), COLs : {HLACols}] : TRUE}

\* dataset.py:202  DialogHeadData.COLs (those the model reads)
HeadCols == {"sent_id", "show_id", "char_name", "char_id", "head_text"}

HeadDatasets == [data : {<<[sent_id |-> 0, head_text |-> "f1"]>>}, COLs : {HeadCols}]

WriteArgs ==
    [path : {<<>>, <<"out">>}, random_seed : {NoInt, Some(0), Some(7)},
     train_ratio : {0, 70, 100}, hla : HLADatasets, hd : HeadDatasets]

\* the manager as write reads it
Manager ==
    [target |-> target, state |-> state, dd |-> args.dd,
     target_dialogs |-> target_dialogs, test_dialogs |-> test_dialogs,
     train_dialogs |-> train_dialogs, train_chars |-> train_chars,
     _pos |-> _pos, _neg |-> _neg]

\* a manager constructed as DataManager("c1", {"s1"}, ...)
ManagerOver(t) ==
    /\ args = [target |-> "c1", test_shows |-> {"s1"}, dd |-> t]
    /\ target_dialogs = TargetDialogs(t, "c1")
    /\ test_dialogs = TestDialogs(t, "c1", {"s1"})
    /\ train_dialogs = TrainDialogs(t, {"s1"})
    /\ train_chars = CharsOf(TrainDialogs(t, {"s1"}))
    /\ constructed = "ok"
    /\ target = "c1" /\ test_shows = {"s1"}

InitWrite ==
    /\ \E t \in CandTables : ManagerOver(t)
    /\ _pos = NoList /\ _neg = NoList /\ state = "train"
    /\ fs \in FileSystems
    /\ \E a \in WriteArgs :
          wr_args = [path |-> a.path, random_seed |-> a.random_seed,
                     train_ratio |-> a.train_ratio, hla |-> a.hla, hd |-> a.hd,
                     ranking |-> [c \in {0} |-> <<0>>]]
    /\ wr_runs = 0 /\ wr_last = [op |-> "none"]
    /\ IdleCC /\ IdleCand /\ IdleMW

\* dm.write(path, random_seed, train_ratio)
Write ==
    /\ wr_runs < MaxWriteRuns
    /\ \E w \in write(Manager, wr_args, fs) :
          /\ fs' = w.fs /\ state' = w.state /\ _pos' = w._pos /\ _neg' = w._neg
          /\ wr_last' = [op |-> "write", before |-> fs, at |-> w.at, err |-> w.err]
    /\ wr_runs' = wr_runs + 1
    /\ UNCHANGED <<args, constructed, target, test_shows, target_dialogs, test_dialogs,
                   train_dialogs, train_chars, wr_args, ccVars, candVars, mwVars>>

NextWrite == Write

SpecWrite == InitWrite /\ [][NextWrite]_vars

\* ---- the stages of write after the cluster, each from the state the lines
\* before it hand over when they have run through ----

\* lists as _expand returns them under HLA_CLUSTER_CONFIG: (char_id, freq, score)
\* with freq >= aco for the positives and below for the negatives
ClusterLists ==
    {[positives |-> LET ids == SelectSeq(AllIds, LAMBDA c : c \in CharIds /\ h[c] = "pos")
                    IN  [i \in DOMAIN ids |-> <<ids[i], HLA_CLUSTER_CONFIG.aco, 1>>],
      negatives |-> LET ids == SelectSeq(AllIds, LAMBDA c : c \in CharIds /\ h[c] = "neg")
                    IN  [i \in DOMAIN ids |-> <<ids[i], HLA_CLUSTER_CONFIG.aco - 1, 1>>]] :
        h \in [CharIds -> {"pos", "neg", "out"}]}

InitStage ==
    /\ \E t \in CandTables : ManagerOver(t)
    /\ \E l \in ClusterLists : _pos = <<l.positives>> /\ _neg = <<l.negatives>>
    \* 'test' is the mode an earlier run that got through its testing phase leaves
    /\ state \in {"train", "test"}
    /\ sent_mw \in {m \in SentWrappers(args.dd) : m.trained}
    /\ cand_args = None /\ cand_called = FALSE /\ cand_result = None
    /\ fs = [parent |-> TRUE, dir |-> TRUE, files |-> [n \in OutputFiles |-> <<>>]]
    /\ wr_args \in [path : {<<"out">>}, random_seed : {NoInt}, train_ratio : {70},
                    hla : {d \in HLADatasets : Len(d.data) > 0}, hd : HeadDatasets,
                    ranking : {[c \in {0} |-> <<0>>]},
                    sent_pool : {{1}, 0 .. Len(sent_mw.cat1) - 1}]
    /\ wr_runs = 0 /\ wr_last = [op |-> "none"]
    /\ IdleCC /\ IdleMW

\* core.py:249-256
PoolStage ==
    /\ wr_last.op = "none"
    /\ LET r == BuildPool(args.dd, _neg, sent_mw)
       IN  wr_last' = [op |-> "pool", ok |-> r.ok, sent_pool |-> IF r.ok THEN r.val ELSE {},
                       err |-> IF r.ok THEN None ELSE r.err]
    /\ UNCHANGED <<dmVars, fs, wr_args, wr_runs, ccVars, candVars, mwVars>>

\* core.py:259-281
TrainingStage ==
    /\ wr_last.op = "none"
    /\ \E tr \in TrainingPhase(Manager, _pos[1], sent_mw, wr_args.sent_pool, fs) :
          /\ fs' = tr.fs
          /\ state' = tr.state
          /\ wr_last' = [op |-> "training", err |-> tr.err, mode_before |-> state]
    /\ UNCHANGED <<args, constructed, target, test_shows, target_dialogs, test_dialogs,
                   train_dialogs, train_chars, _pos, _neg, wr_args, wr_runs,
                   ccVars, candVars, mwVars>>

\* core.py:283-293
TestingStage ==
    /\ wr_last.op = "none" \/ (wr_last.op = "training" /\ wr_last.err = None)
    /\ \E te \in TestingPhase(Manager, sent_mw, wr_args.sent_pool, fs) :
          /\ fs' = te.fs
          /\ state' = te.state
          /\ wr_last' = [op |-> "testing", err |-> te.err, mode_before |-> state]
    /\ UNCHANGED <<args, constructed, target, test_shows, target_dialogs, test_dialogs,
                   train_dialogs, train_chars, _pos, _neg, wr_args, wr_runs,
                   ccVars, candVars, mwVars>>

\* dm.write(path) again, to the same path, after a run that got to its phases
Retry ==
    /\ wr_last.op \in {"training", "testing", "write", "delete"}
    /\ Write

\* the user deletes the output files of an earlier run (sample.py:13 tells them to)
Delete ==
    /\ wr_last.op \in {"training", "testing", "write"}
    /\ \E f \in OutputFiles : exists(fs, f)
    /\ fs' = [fs EXCEPT !.files = [n \in OutputFiles |-> <<>>]]
    /\ wr_last' = [op |-> "delete"]
    /\ UNCHANGED <<dmVars, wr_args, wr_runs, ccVars, candVars, mwVars>>

NextStage == PoolStage \/ TrainingStage \/ TestingStage \/ Retry \/ Delete

SpecStage == InitStage /\ [][NextStage]_vars

\* ------------------------------------------------------------------------
\* Claims on write

\* C11: when train.txt, valid.txt or test.txt exists under the output path, write
\* raises in its checks, before any of the three files is opened or written, and
\* every output file holds what it held.
C11_RefusesExisting ==
    wr_last.op = "write" /\ (\E f \in OutputFiles : exists(wr_last.before, f)) =>
        /\ wr_last.err # None /\ wr_last.at = "precheck"
        /\ fs.files = wr_last.before.files

\* a write with arguments the checks accept, into a folder that holds valid.txt only
C11_Witness ==
    /\ wr_last.op = "write"
    /\ wr_args.path # <<>> /\ wr_args.random_seed = NoInt /\ wr_args.train_ratio = 70
    /\ exists(wr_last.before, VALID_F)
    /\ ~exists(wr_last.before, TRAIN_F) /\ ~exists(wr_last.before, TEST_F)
    /\ wr_last.err = "AssertionError" /\ fs.files[VALID_F] = << <<"old">> >>

\* the number of examples of a ground-truth row in an output file
Examples(f, label) ==
    IF ~exists(fs, f) THEN 0
    ELSE Cardinality({i \in DOMAIN fs.files[f][1] : fs.files[f][1][i].gt = label})

\* all index labels of a frame
Labels(frame) == LabelsWhere(frame, LAMBDA r : TRUE)

PosIds == IF _pos = NoList THEN {} ELSE IdsOf(_pos[1])

NegativeCodes ==
    {code \in DOMAIN m1(sent_mw) :
        m1(sent_mw)[code] \in LabelsWhere(args.dd, LAMBDA r : r.char_id \in NegIds)}

Present(col) == {dataset.ds.data[i][col] : i \in DOMAIN dataset.ds.data}

\* fwd and inv are exact inverses over the codes 0 .. count-1 and the ids given
ExactInverses(fwd, inv, count, ids) ==
    /\ DOMAIN fwd = 0 .. count - 1
    /\ DOMAIN inv = ids
    /\ Cardinality(DOMAIN fwd) = Cardinality(DOMAIN inv)
    /\ \A c \in DOMAIN fwd : fwd[c] \in DOMAIN inv /\ inv[fwd[c]] = c
    /\ \A r \in DOMAIN inv : inv[r] \in DOMAIN fwd /\ fwd[inv[r]] = r

\* id -> code -> id through convert
RoundTrip(m, id_, feature) ==
    LET code == convert(m, id_, TRUE, feature)
    IN  code.ok /\ convert(m, code.val, FALSE, feature) = Ok(id_)

\* C14: on both axes of every constructed MatrixWrapper the forward and the inverse
\* map are exact inverses of equal size, the codes are exactly 0 .. count-1, and
\* converting an id of the column to its code and back gives the id again.
C14_MapsAreInverse ==
    wrapper # <<>> =>
        LET m == wrapper[1]
        IN  /\ ExactInverses(m1(m), m1_inv(m), m1_count(m), Present(m.col1))
            /\ ExactInverses(m2(m), m2_inv(m), m2_count(m), Present(m.col2))
            /\ \A id_ \in Present(m.col1) : RoundTrip(m, id_, FALSE)
            /\ \A id_ \in Present(m.col2) : RoundTrip(m, id_, TRUE)

\* a wrapper over three records, two of them of the same object
C14_Witness ==
    /\ wrapper # <<>>
    /\ Len(dataset.ds.data) = 3
    /\ m1_count(wrapper[1]) = 2 /\ m2_count(wrapper[1]) = 2

\* the number of records of the dataset that hold f in the feature column and o in
\* the object column of the wrapper
Rows(m, f, o) ==
    Cardinality({i \in DOMAIN dataset.ds.data :
                    dataset.ds.data[i][m.col2] = f /\ dataset.ds.data[i][m.col1] = o})

\* C15: the matrix of a constructed wrapper holds at (feature code, object code) the
\* number of records with that feature and that object, its values add up to the
\* number of records, and its nonzero cells are the (feature, object) pairs present.
C15_MatrixCountsRows ==
    wrapper # <<>> =>
        LET m == wrapper[1]
            cells == (0 .. m2_count(m) - 1) \X (0 .. m1_count(m) - 1)
        IN  /\ \A c \in cells : Entry(m.coo, c[1], c[2]) = Rows(m, m2(m)[c[1]], m1(m)[c[2]])
            /\ \A e \in Range(m.coo) : <<e.row, e.col>> \in cells
            /\ Total(m.coo) = Len(dataset.ds.data)
            /\ {c \in cells : Entry(m.coo, c[1], c[2]) # 0}
                 = {<<m2_inv(m)[dataset.ds.data[i][m.col2]],
                      m1_inv(m)[dataset.ds.data[i][m.col1]]>> : i \in DOMAIN dataset.ds.data}

\* a wrapper with a cell of two records, an empty cell, and more objects than features
C15_Witness ==
    /\ wrapper # <<>>
    /\ m1_count(wrapper[1]) > m2_count(wrapper[1])
    /\ \E r \in 0 .. 1, c \in 0 .. 2 : Entry(wrapper[1].coo, r, c) = 2
    /\ \E r \in 0 .. 1, c \in 0 .. 2 : Entry(wrapper[1].coo, r, c) = 0

\* C16: get_train on a wrapper that holds a model, called without overwrite, raises
\* and leaves that model stored; a stored model is replaced only by a call that
\* passes overwrite.
C16_NoSilentRetrain ==
    mw_last.op = "get_train" /\ mw_last.before # <<>> =>
        /\ ~mw_last.overwrite =>
              ~mw_last.ok /\ mw_last.err = "Exception" /\ wrapper[1].model = mw_last.before
        /\ wrapper[1].model # mw_last.before => mw_last.overwrite

\* a second get_train without overwrite
C16_Witness ==
    mw_last.op = "get_train" /\ mw_last.before # <<>> /\ ~mw_last.overwrite

\* C17: the model a successful get_train stores is the one this call fit on the
\* complete matrix times the confidence scale, with report_test or without; the
\* model of the validation fit is never the stored one.
C17_StoredIsComplete ==
    /\ wrapper # <<>> /\ wrapper[1].model # <<>> => wrapper[1].model[1].pass = "complete"
    /\ mw_last.op = "get_train" /\ mw_last.ok =>
          wrapper[1].model =
              <<fit(Scale(wrapper[1].coo, mw_last.train_config.conf_scale), "complete", mw_calls)>>

\* a successful get_train that validated first, on a two-record matrix scaled by 20
C17_Witness ==
    /\ mw_last.op = "get_train" /\ mw_last.ok /\ mw_last.report_test
    /\ mw_last.train_config.conf_scale = 20 /\ Len(wrapper[1].coo) = 2

\* a get_train that runs the validation on its own split: report_test, a threshold
\* set, no test_df, and not refused for a stored model
Validates ==
    /\ mw_last.op = "get_train" /\ mw_last.report_test
    /\ mw_last.train_config.safe_pass # NoInt /\ mw_last.test_df = <<>>
    /\ (mw_last.before = <<>> \/ mw_last.overwrite)

\* C18 as stated: a validating get_train fails exactly when the precision is below
\* the threshold (a precision equal to the threshold passes), and a failed
\* validation stores no new model.
C18_FailsBelowThreshold ==
    Validates =>
        /\ ~mw_last.ok <=> mw_last.prec < mw_last.train_config.safe_pass[1]
        /\ ~mw_last.ok => wrapper[1].model = mw_last.before

\* C18 amended: a validating get_train fails exactly when the precision is not above
\* the threshold (a precision equal to the threshold fails), and a failed
\* validation stores no new model.
C18_FailsUnlessAbove ==
    Validates =>
        /\ ~mw_last.ok <=> mw_last.prec <= mw_last.train_config.safe_pass[1]
        /\ ~mw_last.ok => mw_last.err = "AssertionError" /\ wrapper[1].model = mw_last.before

\* a validation at exactly the threshold, over a stored model
C18_Witness ==
    /\ Validates /\ mw_last.prec = mw_last.train_config.safe_pass[1]
    /\ mw_last.before # <<>> /\ ~mw_last.ok

\* the value of the last convert call is not in the map the call reads
UnknownValue ==
    LET m == wrapper[1]
        fwd == IF mw_last.feature THEN m2(m) ELSE m1(m)
    IN  IF mw_last.to_category THEN mw_last.value \notin Range(fwd)
        ELSE mw_last.value \notin DOMAIN fwd

\* C19: convert of a value the map does not hold raises the lookup error by
\* default, and returns None when the caller passes raising=False.
C19_UnknownLookup ==
    mw_last.op = "convert" /\ UnknownValue =>
        IF mw_last.raising = "False"
        THEN mw_last.result.ok /\ mw_last.result.val = NoInt
        ELSE ~mw_last.result.ok /\ mw_last.result.err = "KeyError"

\* ------------------------------------------------------------------------
\* Claims on the phases of write and on the level-1 size

Refused == wr_last.op = "write" /\ wr_last.at = "precheck" /\ wr_last.err = "AssertionError"

\* C22: a phase that raises leaves the files it opened on disk, a later write to
\* the path is refused for as long as one of them is there, and a write is not
\* refused when none is there (after a delete, or after a failure that opened none).
C22_FailureBlocksRetry ==
    /\ wr_last.op = "training" /\ wr_last.err # None =>
          exists(fs, TRAIN_F) /\ exists(fs, VALID_F)
    /\ wr_last.op = "testing" /\ wr_last.err # None => exists(fs, TEST_F)
    /\ wr_last.op = "write" =>
          /\ Refused <=> \E f \in OutputFiles : exists(wr_last.before, f)
          /\ Refused => fs = wr_last.before
          /\ ~Refused => \A f \in OutputFiles : ~exists(fs, f)

\* a second write refused because of the train.txt a failed training phase left
C22_Witness ==
    /\ Refused /\ wr_runs = 2
    /\ fs.files[TRAIN_F] = << <<>> >> /\ fs.files[VALID_F] = << <<>> >>
    /\ ~exists(fs, TEST_F)

\* floor(total_objects * level1_cap_percent / 100)
PercentOfObjects == (m1_count(mw) * config.perc_cutoff) \div 100

\* the level-1 neighbours of the target are asked for with top_n = l1, and the
\* lists returned are those of an expansion from that many
QueriedWith(l1) ==
    /\ Level1Size(mw, config) = l1
    /\ cc_result = _expand(mw, cc_target, l1, Level2Size(mw, config), config.aco,
                           config.weighted, config.log_scale)

\* C23 as stated: retrieve asks for L1 = min(cap or total_objects, floor(total_objects
\* * percent / 100)) level-1 neighbours, an absent cap and a cap of 0 both standing
\* for total_objects.
C23_Level1CapOrTotal ==
    cc_call = "retrieve" =>
        QueriedWith(Min(IF config.l1 = NoInt \/ config.l1[1] = 0
                        THEN m1_count(mw) ELSE config.l1[1],
                        PercentOfObjects))

\* C23 amended: retrieve asks for L1 = min(cap, floor(total_objects * percent / 100))
\* level-1 neighbours, only an absent cap standing for total_objects: a cap of 0
\* gives L1 = 0.
C23_Level1CapIfGiven ==
    cc_call = "retrieve" =>
        QueriedWith(Min(IF config.l1 = NoInt THEN m1_count(mw) ELSE config.l1[1],
                        PercentOfObjects))

\* a retrieve with a cap of 0 where the percentage allows more: no level-1
\* neighbour is asked for and both lists are empty
C23_Witness ==
    /\ cc_call = "retrieve" /\ cc_result.ok
    /\ config.l1 = Some(0) /\ PercentOfObjects > 0
    /\ cc_result.val.positives = <<>> /\ cc_result.val.negatives = <<>>

====
